---- MODULE Spec2Model ----
(***************************************************************************)
(* Model of the cookie collector service of api/cookies.js: the            *)
(* CookieCollectorService singleton (browser handle, cookie store, the     *)
(* isCollecting flag, the periodic timer), its visit jobs, and the routes  *)
(* POST /refresh and POST /create that drive it.                           *)
(*                                                                         *)
(* One action is one turn of the Node.js event loop: a callback (request   *)
(* handler, timer tick, signal handler, resolution of an awaited browser   *)
(* operation) together with every continuation that runs before the next   *)
(* callback.  Code between two awaits is therefore atomic, and an await on *)
(* an already settled promise continues within the same action.            *)
(*                                                                         *)
(* A visit job is followed through the awaits that other code can observe: *)
(* browser.newPage() (a page context appears) and page.close() (it         *)
(* disappears, the job settles).  The awaits in between (navigation,       *)
(* waits, title, page.cookies()) touch nothing but the job's own page, so  *)
(* how the try block ended is decided in the turn that settles the job.    *)
(***************************************************************************)
EXTENDS Integers, Sequences, FiniteSets, TLC

(* ------------------------------ bounds --------------------------------- *)
\* executions of collectAllCookies followed at once (a finished one frees
\* its slot when the next starts)
MaxCycles == 2
\* POST /create requests followed at once (an answered one frees its slot)
MaxCustom == 1
\* the wall clock counts 0..MaxClock (milliseconds since the epoch)
MaxClock == 1
\* POST /create requests followed at once where their concurrency is studied
MaxInFlight == 2

(* ------------------------------ values --------------------------------- *)
\* JavaScript null (cookies.js:22-30)
null == "null"

\* The Promise.allSettled array of cookies.js:243-247, in order; the results
\* are destructured in the same order at cookies.js:249.
BuiltinVisits == <<"animepahe", "paheWin", "kiwik">>

\* The keys of this.cookies that hold a site's record (cookies.js:23-27).
Sites == {"animepahe", "paheWin", "kiwik"}

CycleIds == 1..MaxCycles
JobIdx == 1..Len(BuiltinVisits)
CustomIds == 1..MaxCustom

\* What page.cookies() can answer: cookie jars of the visited page.
CookieA == [name |-> "a", value |-> "1"]
CookieB == [name |-> "b", value |-> "2"]
Jars == {<< >>, <<CookieA, CookieB>>}
\* The jar a custom target answers with.
CustomJars == {<<CookieA, CookieB>>}

\* Array.prototype.join
RECURSIVE Join(_, _)
Join(strs, sep) ==
  IF strs = << >> THEN ""
  ELSE IF Len(strs) = 1 THEN strs[1]
  ELSE strs[1] \o sep \o Join(Tail(strs), sep)

\* cookies.map(cookie => `${cookie.name}=${cookie.value}`).join('; ')
CookieString(jar) ==
  Join([i \in 1..Len(jar) |-> jar[i].name \o "=" \o jar[i].value], "; ")

\* JavaScript truthiness of a value that is null or a string
Truthy(v) == v # null /\ v # ""

\* new Date().toISOString() for the clock values of the model
ToISOString(t) ==
  "1970-01-01T00:00:00.00"
    \o <<"0", "1", "2", "3", "4", "5", "6", "7", "8", "9">>[t + 1] \o "Z"

\* Request bodies' url field; "" stands for a missing url.
Urls == {"", "example.com", "http://example.com", "https://example.com"}
\* The urls that pass the checks of POST /create.
HttpsUrls == {u \in Urls : u = "https://example.com"}

\* Every parsed url taken for an https one.
UrlProtocolAlwaysHttps(u) ==
  IF u \in {"http://example.com", "https://example.com"}
  THEN "https:" ELSE "invalid"

\* new URL(string).protocol, "invalid" when the constructor throws
UrlProtocol(u) ==
  CASE u = "https://example.com" -> "https:"
    [] u = "http://example.com" -> "http:"
    [] OTHER -> "invalid"

\* isValidUrl (cookies.js:289-296)
IsValidUrl(u) == UrlProtocol(u) # "invalid"

(* ------------------- option values of POST /create --------------------- *)
\* A JSON value of a request body by its typeof: n is the number, s the
\* string or, for an object (arrays included), its JSON text.
Undefined == [type |-> "undefined", n |-> 0, s |-> ""]
Num(n) == [type |-> "number", n |-> n, s |-> ""]
Str(s) == [type |-> "string", n |-> 0, s |-> s]
Obj(json) == [type |-> "object", n |-> 0, s |-> json]

\* JavaScript truthiness of such a value
ToBoolean(v) ==
  CASE v.type = "undefined" -> FALSE
    [] v.type = "number" -> v.n # 0
    [] v.type = "string" -> v.s # ""
    [] v.type = "object" -> TRUE

\* a || b
OrElse(a, b) == IF ToBoolean(a) THEN a ELSE b

\* The literals of the option checks (cookies.js:349-361) and the defaults
\* of visitCustomUrl (cookies.js:188-197).
TimeoutLimit == 120000
InitialWaitLimit == 30000
CloudflareWaitLimit == 60000
AdditionalWaitLimit == 30000
WaitUntilModes == {"load", "domcontentloaded", "networkidle0", "networkidle2"}
DefaultWaitUntil == "networkidle2"
DefaultTimeout == 60000
DefaultInitialWait == 5000
DefaultCloudflareWait == 10000

FlatHeaders == Obj("{\"x-a\":\"b\"}")
ArrayHeaders == Obj("[\"x-a\"]")
NestedHeaders == Obj("{\"x-a\":{\"b\":1}}")
SizeViewport == Obj("{\"width\":800,\"height\":600}")
EmptyViewport == Obj("{}")
\* a post-load script, as page.evaluate takes it
Script == Str("document.cookie = 'x=1'")

\* The options objects of the request bodies followed.
Options ==
  [timeout : {Undefined, Num(TimeoutLimit), Num(999999), Str("5000")},
   waitUntil : {Undefined, Str("load"), Str("idle")},
   initialWait : {Undefined, Num(0), Num(InitialWaitLimit),
                  Num(InitialWaitLimit + 1)},
   cloudflareWait : {Undefined, Num(0), Num(CloudflareWaitLimit)},
   additionalWait : {Undefined, Num(0), Num(AdditionalWaitLimit),
                     Num(AdditionalWaitLimit + 1)},
   headers : {Undefined, FlatHeaders, ArrayHeaders, NestedHeaders},
   viewport : {Undefined, SizeViewport, EmptyViewport},
   executeScript : {Undefined, Script}]

\* const { url, options = {} } = req.body  (cookies.js:328)
NoOptions ==
  [timeout |-> Undefined, waitUntil |-> Undefined, initialWait |-> Undefined,
   cloudflareWait |-> Undefined, additionalWait |-> Undefined,
   headers |-> Undefined, viewport |-> Undefined, executeScript |-> Undefined]

\* options.x && typeof options.x === 'number', the two tests every numeric
\* check starts with (cookies.js:349-361)
TruthyNumber(v) == ToBoolean(v) /\ v.type = "number"

\* typeof v === 'number' && v >= lo && v <= hi, the range test of the
\* numeric checks without the truthiness test before it
Within(v, lo, hi) == v.type = "number" /\ v.n >= lo /\ v.n <= hi

\* options.x && typeof options.x === 'object'  (cookies.js:364, 367)
KeepsObject(v) == ToBoolean(v) /\ v.type = "object"

\* validOptions with the script of the body copied into it.
ValidOptionsWithScript(options) ==
  [NoOptions EXCEPT !.executeScript = options.executeScript]

\* validOptions as POST /create builds it (cookies.js:347-369): a field
\* is copied when its check passes and is absent otherwise; no line copies
\* executeScript.
ValidOptions(options) ==
  [timeout |->
     IF TruthyNumber(options.timeout) /\ options.timeout.n > 0
        /\ options.timeout.n <= TimeoutLimit
     THEN options.timeout ELSE Undefined,
   waitUntil |->
     IF ToBoolean(options.waitUntil) /\ options.waitUntil.type = "string"
        /\ options.waitUntil.s \in WaitUntilModes
     THEN options.waitUntil ELSE Undefined,
   initialWait |->
     IF TruthyNumber(options.initialWait) /\ options.initialWait.n >= 0
        /\ options.initialWait.n <= InitialWaitLimit
     THEN options.initialWait ELSE Undefined,
   cloudflareWait |->
     IF TruthyNumber(options.cloudflareWait) /\ options.cloudflareWait.n >= 0
        /\ options.cloudflareWait.n <= CloudflareWaitLimit
     THEN options.cloudflareWait ELSE Undefined,
   additionalWait |->
     IF TruthyNumber(options.additionalWait) /\ options.additionalWait.n >= 0
        /\ options.additionalWait.n <= AdditionalWaitLimit
     THEN options.additionalWait ELSE Undefined,
   headers |->
     IF KeepsObject(options.headers) THEN options.headers ELSE Undefined,
   viewport |->
     IF KeepsObject(options.viewport) THEN options.viewport ELSE Undefined,
   executeScript |-> Undefined]

\* What visitCustomUrl does with its options (cookies.js:179-206): the
\* headers and viewport it sets on the page (Undefined: the call is
\* skipped), the arguments of page.goto, the delays in milliseconds and the
\* script it evaluates (Undefined: page.evaluate is not called);
\* the challenge delay is waited only when the title announces a challenge,
\* the additional delay only when the option is truthy.
Applied(options, challenge) ==
  [headers |-> IF ToBoolean(options.headers) THEN options.headers ELSE Undefined,
   viewport |->
     IF ToBoolean(options.viewport) THEN options.viewport ELSE Undefined,
   waitUntil |-> OrElse(options.waitUntil, Str(DefaultWaitUntil)).s,
   timeout |-> OrElse(options.timeout, Num(DefaultTimeout)).n,
   initialWait |-> OrElse(options.initialWait, Num(DefaultInitialWait)).n,
   cloudflareWait |->
     IF challenge
     THEN OrElse(options.cloudflareWait, Num(DefaultCloudflareWait)).n ELSE 0,
   additionalWait |->
     IF ToBoolean(options.additionalWait) THEN options.additionalWait.n ELSE 0,
   executeScript |->
     IF ToBoolean(options.executeScript) THEN options.executeScript
     ELSE Undefined,
   challenge |-> challenge]

(* --------------------------- page titles ------------------------------- *)
\* What page.title() can answer.
Titles ==
  {"Example Domain", "Just a moment...", "Attention Required! | Cloudflare",
   "just a moment"}

\* String.prototype.includes
Includes(s, sub) ==
  \E i \in 1..(Len(s) - Len(sub) + 1) : SubSeq(s, i, i + Len(sub) - 1) = sub

\* The test of the title with its second disjunct left out.
AnnouncesChallengeJustAMoment(title) == Includes(title, "Just a moment")

\* title.includes('Just a moment') || title.includes('Cloudflare')
\* (cookies.js:195; the same test at 87, 120 and 153)
AnnouncesChallenge(title) ==
  Includes(title, "Just a moment") \/ Includes(title, "Cloudflare")

(* ------------------- the statements of a visit ------------------------- *)
\* The script evaluated after the cookies have been read.
StatementsScriptAfterCookies ==
  <<"setUserAgent", "setExtraHTTPHeaders", "setViewport", "goto",
    "initialWait", "title", "cloudflareWait", "additionalWait", "cookies",
    "evaluate">>

\* The awaited statements of the try block of visitCustomUrl, in the order
\* of the source (cookies.js:175-208).  visitAnimepahe, visitPaheWin and
\* visitKiwik (76-92) are the same statements without the optional ones.
Statements ==
  <<"setUserAgent", "setExtraHTTPHeaders", "setViewport", "goto",
    "initialWait", "title", "cloudflareWait", "additionalWait", "evaluate",
    "cookies">>

\* The condition under which a statement is executed (cookies.js:179, 183,
\* 195, 200, 204); the others are unconditional.
Runs(stmt, options, title) ==
  CASE stmt = "setExtraHTTPHeaders" -> ToBoolean(options.headers)
    [] stmt = "setViewport" -> ToBoolean(options.viewport)
    [] stmt = "cloudflareWait" -> AnnouncesChallenge(title)
    [] stmt = "additionalWait" -> ToBoolean(options.additionalWait)
    [] stmt = "evaluate" -> ToBoolean(options.executeScript)
    [] OTHER -> TRUE

\* The statements that lie after statement i and are executed.
Ahead(i, options, title) ==
  {j \in (i + 1)..Len(Statements) : Runs(Statements[j], options, title)}

\* The statement executed after statement i; 0 when the try block has
\* come to its return.
NextStatement(i, options, title) ==
  IF Ahead(i, options, title) = {} THEN 0
  ELSE CHOOSE j \in Ahead(i, options, title) :
         \A k \in Ahead(i, options, title) : j <= k

\* new Promise(resolve => setTimeout(resolve, ms)) is never rejected.
IsDelay(stmt) == stmt \in {"initialWait", "cloudflareWait", "additionalWait"}

\* The options objects visitCustomUrl is followed with.
VisitOptions ==
  {[NoOptions EXCEPT !.headers = h, !.viewport = v, !.additionalWait = w,
                     !.executeScript = e] :
     h \in {Undefined, FlatHeaders}, v \in {Undefined, SizeViewport},
     w \in {Undefined, Num(AdditionalWaitLimit)}, e \in {Undefined, Script}}

(* ------------------------------ state ---------------------------------- *)
VARIABLES
  browser,            \* this.browser: null, "live" or "closed"
  cookies,            \* this.cookies
  isCollecting,       \* this.isCollecting
  collectionInterval, \* this.collectionInterval: null or "Timeout"
  timerActive,        \* whether the runtime still fires the interval
  initPc,             \* where init() stands
  cycles,             \* executions of collectAllCookies that passed the guard
  customs,            \* POST /create requests and their visitCustomUrl call
  openPages,          \* page contexts open in the browser
  now,                \* the wall clock at its last reading
  lastTrigger,        \* the last trigger the running cycle turned away
  closeCalls,         \* calls of browser.close(): "none", "once" or "again"
  snapshot,           \* the body of the last answer of GET /
  request,            \* the options of a POST /create body on their way
  visit,              \* a call of visitCustomUrl, statement by statement
  refreshAnswer       \* the last answer of POST /refresh

vars == <<browser, cookies, isCollecting, collectionInterval, timerActive,
          initPc, cycles, customs, openPages, now, lastTrigger, closeCalls,
          snapshot, request, visit, refreshAnswer>>

\* A visit job: pc is the await it is suspended at, or how it settled.
\*   "newPage"   awaiting browser.newPage()
\*   "visit"     page acquired: inside try, or awaiting page.close()
\*   "fulfilled" / "rejected"   the promise of the async function settled
\* page is the job's local variable `page` (0 before it is assigned and
\* after the call has ended).
IdleJob == [pc |-> "idle", site |-> "none", page |-> 0, val |-> null]

\* An execution of collectAllCookies: "running" between setting and
\* resetting isCollecting, "done" after; at is the clock reading of line 261.
IdleCycle ==
  [st |-> "unused", trigger |-> "none", jobs |-> [i \in JobIdx |-> IdleJob],
   at |-> null]

\* What visitCustomUrl gave its caller: nothing yet, a returned record
\* ({success, cookies, cookieCount, url}) or a rejection.
NoReturn ==
  [kind |-> "none", success |-> FALSE, cookies |-> null, cookieCount |-> 0]

Thrown == [NoReturn EXCEPT !.kind = "rejected"]

IdleCustom ==
  [pc |-> "unused", page |-> 0, url |-> "", ret |-> NoReturn,
   status |-> 0, error |-> ""]

NoTrigger == [kind |-> "none", outcome |-> "none"]

\* The answer of GET /: its status and the fields of its body.
NoAnswer ==
  [status |-> 0, animepahe |-> null, pahewin |-> null, kiwik |-> null,
   lastUpdated |-> null]

\* The answer of POST /refresh: its status and what the service was doing
\* when res.json or res.status was called.
NoRefreshAnswer == [status |-> 0, isCollecting |-> FALSE, cycle |-> 0]

\* The options of a request body: as received (options), as validated by
\* the route (validOptions) and as visitCustomUrl applied them (applied);
\* before a request is followed there is none of them.
NoRequest == [pc |-> "none"]

\* A call of visitCustomUrl followed statement by statement: pc is where
\* the call stands ("newPage": awaiting browser.newPage(); "try": awaiting
\* statement stmt of the try block; "close": awaiting page.close() in
\* finally; "returned" or "rejected": the call has ended), title is what
\* page.title() answered, log the calls made so far in the order they were
\* made, result the record the call is about to return.
NoVisit ==
  [pc |-> "none", stmt |-> 0, title |-> "", log |-> << >>, result |-> "none"]

\* State after the module is loaded: the constructor has run and init() is
\* suspended at await puppeteer.launch.
Init ==
  /\ browser = null
  /\ cookies = [animepahe |-> null, paheWin |-> null, kiwik |-> null,
                lastUpdated |-> null]
  /\ isCollecting = FALSE
  /\ collectionInterval = null
  /\ timerActive = FALSE
  /\ initPc = "launching"
  /\ cycles = [c \in CycleIds |-> IdleCycle]
  /\ customs = [k \in CustomIds |-> IdleCustom]
  /\ openPages = {}
  /\ now = 0
  /\ lastTrigger = NoTrigger
  /\ closeCalls = "none"
  /\ snapshot = NoAnswer
  /\ request = NoRequest
  /\ visit = NoVisit
  /\ refreshAnswer = NoRefreshAnswer

\* The same state with room for MaxInFlight requests at once.
InitInFlight ==
  /\ browser = null
  /\ cookies = [animepahe |-> null, paheWin |-> null, kiwik |-> null,
                lastUpdated |-> null]
  /\ isCollecting = FALSE
  /\ collectionInterval = null
  /\ timerActive = FALSE
  /\ initPc = "launching"
  /\ cycles = [c \in CycleIds |-> IdleCycle]
  /\ customs = [k \in 1..MaxInFlight |-> IdleCustom]
  /\ openPages = {}
  /\ now = 0
  /\ lastTrigger = NoTrigger
  /\ closeCalls = "none"
  /\ snapshot = NoAnswer
  /\ request = NoRequest
  /\ visit = NoVisit
  /\ refreshAnswer = NoRefreshAnswer

(* --------------------- collectAllCookies: pure parts ------------------- *)
\* The guard left out: every call proceeds.
GuardNever(flag) == FALSE

\* if (this.isCollecting) return;   (cookies.js:234-237)
GuardBusy(flag) == flag

\* The route's own check left out: the request falls through to the guard.
RefreshNeverBusy(flag) == FALSE

\* if (cookieService.isCollecting) return res.status(429)   (cookies.js:399-401)
RefreshBusy(flag) == flag

\* The busy check of POST /create made to count custom jobs in flight too.
CreateBusyOrInFlight(flag) ==
  flag \/ \E k \in DOMAIN customs : customs[k].pc \in {"newPage", "visit"}

\* The busy check of POST /create left out.
CreateNeverBusy(flag) == FALSE

\* if (cookieService.isCollecting) return res.status(429)   (cookies.js:343-345)
CreateBusy(flag) == flag

\* browser.newPage() handing every job the same page context.
NewPageIdShared(j) == 1

\* Identity of a built-in job, of a custom job, and of the page context a
\* call of browser.newPage() made by job j creates: a fresh object per call.
JobId(c, i) == (c - 1) * Len(BuiltinVisits) + i
CustomJobId(k) == MaxCycles * Len(BuiltinVisits) + k
NewPageId(j) == j

\* A visit function up to its first await: this.browser.newPage() throws a
\* TypeError when this.browser is null, which rejects the job at once.
LaunchedJob(site, br) ==
  IF br = null
  THEN [pc |-> "rejected", site |-> site, page |-> 0, val |-> null]
  ELSE [pc |-> "newPage", site |-> site, page |-> 0, val |-> null]

Settled(job) == job.pc \in {"fulfilled", "rejected"}

\* Promise.all in its place: the join ends at the first rejection.
JoinAtFirstRejection(js) ==
  \/ \A i \in JobIdx : js[i].pc = "fulfilled"
  \/ \E i \in JobIdx : js[i].pc = "rejected"

\* A join that resolves only when every promise has fulfilled.
JoinWhenAllFulfilled(js) == \A i \in JobIdx : js[i].pc = "fulfilled"

\* Promise.allSettled resolves once every promise has settled, never rejects.
JoinReady(js) == \A i \in JobIdx : Settled(js[i])

\* The entries Promise.allSettled resolves with.
Results(js) ==
  [i \in JobIdx |->
    [status |-> IF Settled(js[i]) THEN js[i].pc ELSE "pending",
     value |-> IF js[i].pc = "fulfilled" THEN js[i].val ELSE null]]

\* The truthiness test left out: a fulfilled null is installed too.
InstallsAnyFulfilled(result) == result.status = "fulfilled"

\* result.status === 'fulfilled' && result.value   (cookies.js:251,254,257)
Installs(result) == result.status = "fulfilled" /\ Truthy(result.value)

\* The results taken one place further on: each site is given the result of
\* the job after its own.
MergeShifted(store, results) ==
  [store EXCEPT
     !.animepahe = IF Installs(results[2]) THEN results[2].value ELSE @,
     !.paheWin = IF Installs(results[3]) THEN results[3].value ELSE @,
     !.kiwik = IF Installs(results[1]) THEN results[1].value ELSE @]

\* cookies.js:249-259: the three conditional assignments
Merge(store, results) ==
  [store EXCEPT
     !.animepahe = IF Installs(results[1]) THEN results[1].value ELSE @,
     !.paheWin = IF Installs(results[2]) THEN results[2].value ELSE @,
     !.kiwik = IF Installs(results[3]) THEN results[3].value ELSE @]

\* The stamp made conditional on some site having been installed.
FanInStoreIfInstalled(store, results, t) ==
  IF \E i \in JobIdx : Installs(results[i])
  THEN [Merge(store, results) EXCEPT !.lastUpdated = ToISOString(t)]
  ELSE Merge(store, results)

\* cookies.js:249-261: the merge, then the lastUpdated stamp
FanInStore(store, results, t) ==
  [Merge(store, results) EXCEPT !.lastUpdated = ToISOString(t)]

\* new Date(): the clock has not gone back since its last reading.
ClockReadings == {t \in 0..MaxClock : t >= now}

HasFreeCycle == \E c \in CycleIds : cycles[c].st \in {"unused", "done"}

FreeCycle ==
  CHOOSE c \in CycleIds :
    /\ cycles[c].st \in {"unused", "done"}
    /\ \A d \in CycleIds : d < c => cycles[d].st \notin {"unused", "done"}

\* Only the most recently completed cycle keeps its per-site outcomes.
Archive(cs) ==
  [c \in CycleIds |-> IF cs[c].st = "done" THEN IdleCycle ELSE cs[c]]

\* setInterval at cookies.js:63-65, the continuation of init() after the
\* awaited startup call has returned.
InstallTimer ==
  /\ collectionInterval' = "Timeout"
  /\ timerActive' = TRUE
  /\ initPc' = "ready"

\* cookies.js:249-268 for the settled jobs js of cycle c: merge, stamp,
\* reset the flag.
FanIn(cs, c, js) ==
  /\ \E t \in ClockReadings :
       /\ now' = t
       /\ cookies' = FanInStore(cookies, Results(js), t)
       /\ cycles' = [cs EXCEPT ![c] = [@ EXCEPT !.st = "done", !.jobs = js,
                                                !.at = ToISOString(t)]]
  /\ isCollecting' = FALSE
  /\ lastTrigger' = NoTrigger

\* collectAllCookies() called by `trigger` while this.browser is br
\* (cookies.js:233-269), up to its first suspension; a cycle whose three
\* jobs rejected synchronously runs its fan-in within the same turn.
CollectAllCookies(trigger, br) ==
  IF GuardBusy(isCollecting)
  THEN /\ lastTrigger' = [kind |-> trigger, outcome |-> "skipped"]
       /\ UNCHANGED <<cycles, cookies, isCollecting, now>>
  ELSE /\ HasFreeCycle
       /\ LET c == FreeCycle
              js == [i \in JobIdx |-> LaunchedJob(BuiltinVisits[i], br)]
              started == [Archive(cycles) EXCEPT
                            ![c] = [st |-> "running", trigger |-> trigger,
                                    jobs |-> js, at |-> null]]
          IN IF JoinReady(js)
             THEN FanIn(started, c, js)
             ELSE /\ cycles' = started
                  /\ isCollecting' = TRUE
                  /\ UNCHANGED <<cookies, now, lastTrigger>>

\* The startup call not awaited: init goes on to setInterval at once.
ReturnsAtOnceAlways(br) == TRUE

\* Whether that call returns an already settled promise.
ReturnsAtOnce(br) == GuardBusy(isCollecting) \/ br = null

(* ------------------------------- init ---------------------------------- *)
\* puppeteer.launch resolves (cookies.js:37-60): the browser handle is
\* stored and the startup cycle is called within the same turn.
LaunchResolve ==
  /\ initPc = "launching"
  /\ browser' = "live"
  /\ CollectAllCookies("startup", "live")
  /\ IF ReturnsAtOnce("live")
     THEN InstallTimer
     ELSE /\ initPc' = "startupCycle"
          /\ UNCHANGED <<collectionInterval, timerActive>>
  /\ UNCHANGED <<customs, openPages, closeCalls, snapshot, request, visit, refreshAnswer>>

\* puppeteer.launch rejects (cookies.js:67-70, 435): init rethrows and the
\* module's .catch(console.error) swallows it.
LaunchReject ==
  /\ initPc = "launching"
  /\ initPc' = "failed"
  /\ UNCHANGED <<browser, closeCalls, snapshot, request, visit, refreshAnswer, cookies, isCollecting, collectionInterval,
                 timerActive, cycles, customs, openPages, now, lastTrigger>>

\* The interval callback (cookies.js:63-65).
TimerTick ==
  /\ timerActive
  /\ CollectAllCookies("periodic", browser)
  /\ UNCHANGED <<browser, closeCalls, snapshot, request, visit, refreshAnswer, collectionInterval, timerActive, initPc, customs,
                 openPages>>

\* POST /refresh (cookies.js:397-415).
Refresh ==
  /\ IF RefreshBusy(isCollecting)
     THEN /\ lastTrigger' = [kind |-> "manual", outcome |-> "busy"]
          /\ UNCHANGED <<cycles, cookies, isCollecting, now>>
     ELSE CollectAllCookies("manual", browser)
  /\ UNCHANGED <<browser, closeCalls, snapshot, request, visit, refreshAnswer, collectionInterval, timerActive, initPc, customs,
                 openPages>>

\* this.isCollecting as the caller finds it when a call of
\* collectAllCookies has awaited the cycle to its end.
FlagAfterReturn(flag) == IF GuardBusy(flag) THEN flag ELSE FALSE

\* this.isCollecting as the caller finds it when a call of
\* collectAllCookies that is not awaited hands back its promise: the call
\* has returned at the guard (cookies.js:234-237) or has set the flag (239)
\* and is suspended at await Promise.allSettled (243).
FlagAtFirstAwait(flag) == IF GuardBusy(flag) THEN flag ELSE TRUE

\* POST /refresh (cookies.js:397-415) with its answer: 429 at line 400, or
\* the call of line 403 and then the answer of line 405, which is given
\* before any continuation of collectAllCookies can run.
PostRefresh ==
  /\ IF RefreshBusy(isCollecting)
     THEN /\ lastTrigger' = [kind |-> "manual", outcome |-> "busy"]
          /\ refreshAnswer' = [status |-> 429, isCollecting |-> isCollecting,
                               cycle |-> 0]
          /\ UNCHANGED <<cycles, cookies, isCollecting, now>>
     ELSE /\ CollectAllCookies("manual", browser)
          /\ refreshAnswer' =
               [status |-> 200,
                isCollecting |-> FlagAtFirstAwait(isCollecting),
                cycle |-> IF GuardBusy(isCollecting) THEN 0 ELSE FreeCycle]
  /\ UNCHANGED <<browser, closeCalls, snapshot, request, visit,
                 collectionInterval, timerActive, initPc, customs, openPages>>

\* destroy() (cookies.js:275-282), called by the SIGTERM and SIGINT handlers
\* (cookies.js:438-446); browser.close() closes every page context.
\* destroy() assigns neither this.browser nor this.collectionInterval.  The
\* host's own signal handlers (server.js:155-174) end the process within 30 s
\* of the signal; a behaviour that stops there is one that stutters from that
\* state on, and the service is followed for as long as its host keeps
\* running.
Destroy ==
  /\ timerActive' = IF collectionInterval # null THEN FALSE ELSE timerActive
  /\ browser' = IF browser # null THEN "closed" ELSE browser
  /\ openPages' = IF browser # null THEN {} ELSE openPages
  /\ closeCalls' = IF browser # null
                   THEN IF closeCalls = "none" THEN "once" ELSE "again"
                   ELSE closeCalls
  /\ UNCHANGED <<cookies, isCollecting, collectionInterval, initPc, cycles,
                 customs, now, lastTrigger, snapshot, request, visit, refreshAnswer>>

\* destroy() while browser.close() has not been called.  A later call
\* changes nothing but the count of close calls; SpecShutdown follows it.
DestroyOnce == closeCalls = "none" /\ Destroy

(* ---------------------- built-in visit jobs ---------------------------- *)
\* visitAnimepahe, visitPaheWin and visitKiwik (cookies.js:73-170) differ
\* only in the address they visit; job i of cycle c is the call of
\* BuiltinVisits[i].

InFlight(c, i, pc) ==
  /\ cycles[c].st \in {"running", "done"}
  /\ cycles[c].jobs[i].pc = pc

\* page.close() at the end of the try block instead of in finally.
ClosesPageOnReturn(ending) == ending = "returned"

\* finally { await page.close() } (cookies.js:101-103) runs however the try
\* block ended: "returned" or "caught".
ClosesPage(ending) == TRUE

\* The settling job's result merged at once, before the join is complete.
SettleBuiltinMergesAtOnce(c, i, job) ==
  LET js == [cycles[c].jobs EXCEPT ![i] = job]
  IN IF cycles[c].st = "running" /\ JoinReady(js)
     THEN /\ FanIn(cycles, c, js)
          /\ IF cycles[c].trigger = "startup" /\ initPc = "startupCycle"
             THEN InstallTimer
             ELSE UNCHANGED <<collectionInterval, timerActive, initPc>>
     ELSE /\ cycles' = [cycles EXCEPT ![c].jobs = js]
          /\ cookies' = IF Installs(Results(js)[i])
                        THEN [cookies EXCEPT ![BuiltinVisits[i]] = job.val]
                        ELSE cookies
          /\ UNCHANGED <<isCollecting, now, lastTrigger,
                         collectionInterval, timerActive, initPc>>

\* Job i of cycle c settles as `job`.  When that completes the join of a
\* running cycle, the rest of collectAllCookies (cookies.js:249-268) and,
\* for the startup cycle, the rest of init (cookies.js:62-65) run within the
\* same turn.
SettleBuiltin(c, i, job) ==
  LET js == [cycles[c].jobs EXCEPT ![i] = job]
  IN IF cycles[c].st = "running" /\ JoinReady(js)
     THEN /\ FanIn(cycles, c, js)
          /\ IF cycles[c].trigger = "startup" /\ initPc = "startupCycle"
             THEN InstallTimer
             ELSE UNCHANGED <<collectionInterval, timerActive, initPc>>
     ELSE /\ cycles' = [cycles EXCEPT ![c].jobs = js]
          /\ UNCHANGED <<cookies, isCollecting, now, lastTrigger,
                         collectionInterval, timerActive, initPc>>

\* browser.newPage() resolves (cookies.js:74): the job owns a fresh page.
NewPageResolve(c, i) ==
  /\ InFlight(c, i, "newPage")
  /\ browser = "live"
  /\ LET p == NewPageId(JobId(c, i))
     IN /\ cycles' = [cycles EXCEPT ![c].jobs[i] = [@ EXCEPT !.pc = "visit", !.page = p]]
        /\ openPages' = openPages \cup {p}
  /\ UNCHANGED <<browser, closeCalls, snapshot, request, visit, refreshAnswer, cookies, isCollecting, collectionInterval,
                 timerActive, initPc, customs, now, lastTrigger>>

\* browser.newPage() rejects; the await is outside the try block, so the
\* job rejects.
NewPageReject(c, i) ==
  /\ InFlight(c, i, "newPage")
  /\ SettleBuiltin(c, i, [cycles[c].jobs[i] EXCEPT !.pc = "rejected"])
  /\ UNCHANGED <<browser, closeCalls, snapshot, request, visit, refreshAnswer, customs, openPages>>

\* cookies.js:76-96 then 101-103: navigation, waits and page.cookies()
\* succeeded, page.close() resolves, the job fulfils with the cookie string.
VisitReturn(c, i, jar) ==
  /\ InFlight(c, i, "visit")
  /\ cycles[c].jobs[i].page \in openPages
  /\ openPages' = IF ClosesPage("returned")
                  THEN openPages \ {cycles[c].jobs[i].page} ELSE openPages
  /\ SettleBuiltin(c, i, [cycles[c].jobs[i] EXCEPT
                            !.pc = "fulfilled", !.page = 0,
                            !.val = CookieString(jar)])
  /\ UNCHANGED <<browser, closeCalls, snapshot, request, visit, refreshAnswer, customs>>

\* cookies.js:98-103: an awaited page operation rejected, catch returns
\* null, page.close() resolves, the job fulfils with null.
VisitCaught(c, i) ==
  /\ InFlight(c, i, "visit")
  /\ cycles[c].jobs[i].page \in openPages
  /\ openPages' = IF ClosesPage("caught")
                  THEN openPages \ {cycles[c].jobs[i].page} ELSE openPages
  /\ SettleBuiltin(c, i, [cycles[c].jobs[i] EXCEPT
                            !.pc = "fulfilled", !.page = 0, !.val = null])
  /\ UNCHANGED <<browser, closeCalls, snapshot, request, visit, refreshAnswer, customs>>

\* The page context is gone (the browser was closed): page.close() rejects,
\* the rejection leaves the finally block and replaces the return value.
CloseReject(c, i) ==
  /\ InFlight(c, i, "visit")
  /\ cycles[c].jobs[i].page \notin openPages
  /\ SettleBuiltin(c, i, [cycles[c].jobs[i] EXCEPT !.pc = "rejected", !.page = 0])
  /\ UNCHANGED <<browser, closeCalls, snapshot, request, visit, refreshAnswer, customs, openPages>>

(* ------------------- POST /create and visitCustomUrl ------------------- *)
HasFreeCustom ==
  \E k \in DOMAIN customs : customs[k].pc \in {"unused", "done"}

FreeCustom ==
  CHOOSE k \in DOMAIN customs :
    /\ customs[k].pc \in {"unused", "done"}
    /\ \A d \in DOMAIN customs :
         d < k => customs[d].pc \notin {"unused", "done"}

\* The response of a request answered without a visit job's result.
Answered(u, status, error) ==
  [IdleCustom EXCEPT !.pc = "done", !.url = u, !.status = status, !.error = error]

\* POST /create with the busy check made before the checks of the url.
CreateBusyFirst(u) ==
  /\ HasFreeCustom
  /\ customs' = [customs EXCEPT ![FreeCustom] =
       IF CreateBusy(isCollecting)
         THEN Answered(u, 429, "Service is busy, please try again later")
       ELSE IF ~Truthy(u) THEN Answered(u, 400, "URL is required")
       ELSE IF ~IsValidUrl(u) THEN Answered(u, 400, "Invalid URL format")
       ELSE IF UrlProtocol(u) # "https:"
         THEN Answered(u, 400, "Only HTTPS URLs are allowed")
       ELSE IF browser = null
         THEN [Answered(u, 500, "Internal server error") EXCEPT !.ret = Thrown]
       ELSE [IdleCustom EXCEPT !.pc = "newPage", !.url = u]]
  /\ UNCHANGED <<browser, closeCalls, snapshot, request, visit, refreshAnswer,
                 cookies, isCollecting, collectionInterval, timerActive,
                 initPc, cycles, openPages, now, lastTrigger>>

\* POST /create (cookies.js:326-395) up to its first suspension:
\* the checks in order, then visitCustomUrl up to await browser.newPage().
\* With this.browser null that call throws, visitCustomUrl rejects and the
\* route's catch answers 500.
Create(u) ==
  /\ HasFreeCustom
  /\ customs' = [customs EXCEPT ![FreeCustom] =
       IF ~Truthy(u) THEN Answered(u, 400, "URL is required")
       ELSE IF ~IsValidUrl(u) THEN Answered(u, 400, "Invalid URL format")
       ELSE IF UrlProtocol(u) # "https:"
         THEN Answered(u, 400, "Only HTTPS URLs are allowed")
       ELSE IF CreateBusy(isCollecting)
         THEN Answered(u, 429, "Service is busy, please try again later")
       ELSE IF browser = null
         THEN [Answered(u, 500, "Internal server error") EXCEPT !.ret = Thrown]
       ELSE [IdleCustom EXCEPT !.pc = "newPage", !.url = u]]
  /\ UNCHANGED <<browser, closeCalls, snapshot, request, visit, refreshAnswer, cookies, isCollecting, collectionInterval,
                 timerActive, initPc, cycles, openPages, now, lastTrigger>>

\* browser.newPage() resolves (cookies.js:173).
CustomNewPageResolve(k) ==
  /\ customs[k].pc = "newPage"
  /\ browser = "live"
  /\ LET p == NewPageId(CustomJobId(k))
     IN /\ customs' = [customs EXCEPT ![k] = [@ EXCEPT !.pc = "visit", !.page = p]]
        /\ openPages' = openPages \cup {p}
  /\ UNCHANGED <<browser, closeCalls, snapshot, request, visit, refreshAnswer, cookies, isCollecting, collectionInterval,
                 timerActive, initPc, cycles, now, lastTrigger>>

\* visitCustomUrl rejects (cookies.js:173 or 229) and the route's catch
\* answers 500 (cookies.js:391-394).
RouteCaught(k) ==
  [customs EXCEPT ![k] =
     [@ EXCEPT !.pc = "done", !.page = 0, !.ret = Thrown, !.status = 500,
               !.error = "Internal server error"]]

\* visitCustomUrl returns `ret` and the route answers 200 or 400
\* (cookies.js:374-389).
RouteAnswers(k, ret, error) ==
  [customs EXCEPT ![k] =
     [@ EXCEPT !.pc = "done", !.page = 0, !.ret = ret, !.error = error,
               !.status = IF ret.success THEN 200 ELSE 400]]

\* browser.newPage() rejects outside the try block.
CustomNewPageReject(k) ==
  /\ customs[k].pc = "newPage"
  /\ customs' = RouteCaught(k)
  /\ UNCHANGED <<browser, closeCalls, snapshot, request, visit, refreshAnswer, cookies, isCollecting, collectionInterval,
                 timerActive, initPc, cycles, openPages, now, lastTrigger>>

\* The custom visit made to install its result as a site's record.
CustomReturnInstalls(k, jar) ==
  /\ customs[k].pc = "visit"
  /\ customs[k].page \in openPages
  /\ openPages' = openPages \ {customs[k].page}
  /\ customs' = RouteAnswers(k, [kind |-> "value", success |-> TRUE,
                                  cookies |-> CookieString(jar),
                                  cookieCount |-> Len(jar)], "")
  /\ cookies' = [cookies EXCEPT !.animepahe = CookieString(jar)]
  /\ UNCHANGED <<browser, closeCalls, snapshot, request, visit, refreshAnswer, isCollecting,
                 collectionInterval, timerActive, initPc, cycles, now,
                 lastTrigger>>

\* cookies.js:175-218 then 228-230: the visit succeeded, page.close()
\* resolves, visitCustomUrl returns the success record.
CustomReturn(k, jar) ==
  /\ customs[k].pc = "visit"
  /\ customs[k].page \in openPages
  /\ openPages' = openPages \ {customs[k].page}
  /\ customs' = RouteAnswers(k, [kind |-> "value", success |-> TRUE,
                                  cookies |-> CookieString(jar),
                                  cookieCount |-> Len(jar)], "")
  /\ UNCHANGED <<browser, closeCalls, snapshot, request, visit, refreshAnswer, cookies, isCollecting, collectionInterval,
                 timerActive, initPc, cycles, now, lastTrigger>>

\* cookies.js:220-230: an awaited page operation rejected, catch builds the
\* failure record, page.close() resolves, visitCustomUrl returns it.
CustomCaught(k) ==
  /\ customs[k].pc = "visit"
  /\ customs[k].page \in openPages
  /\ openPages' = openPages \ {customs[k].page}
  /\ customs' = RouteAnswers(k, [NoReturn EXCEPT !.kind = "value"],
                             "error.message")
  /\ UNCHANGED <<browser, closeCalls, snapshot, request, visit, refreshAnswer, cookies, isCollecting, collectionInterval,
                 timerActive, initPc, cycles, now, lastTrigger>>

\* The page context is gone (the browser was closed): page.close() rejects
\* in finally and the rejection replaces the record to return.
CustomCloseReject(k) ==
  /\ customs[k].pc = "visit"
  /\ customs[k].page \notin openPages
  /\ customs' = RouteCaught(k)
  /\ UNCHANGED <<browser, closeCalls, snapshot, request, visit, refreshAnswer, cookies, isCollecting, collectionInterval,
                 timerActive, initPc, cycles, openPages, now, lastTrigger>>

(* ------------------------------- GET / --------------------------------- *)
\* The test of lastUpdated left out: 200 whatever the store holds.
AnswerAlways200(store) ==
  [status |-> 200, animepahe |-> store.animepahe, pahewin |-> store.paheWin,
   kiwik |-> store.kiwik, lastUpdated |-> store.lastUpdated]

\* 503 for as long as the store holds no record of any site.
AnswerNeedsRecord(store) ==
  IF \A x \in Sites : ~Truthy(store[x])
  THEN [NoAnswer EXCEPT !.status = 503]
  ELSE [status |-> 200, animepahe |-> store.animepahe,
        pahewin |-> store.paheWin, kiwik |-> store.kiwik,
        lastUpdated |-> store.lastUpdated]

\* The answer GET / builds from the object getCookies returns
\* (cookies.js:299-318): 503 until lastUpdated is set, then the three
\* records and lastUpdated, serialised by res.json within the handler.
Answer(store) ==
  IF ~Truthy(store.lastUpdated)
  THEN [NoAnswer EXCEPT !.status = 503]
  ELSE [status |-> 200, animepahe |-> store.animepahe,
        pahewin |-> store.paheWin, kiwik |-> store.kiwik,
        lastUpdated |-> store.lastUpdated]

\* GET / (cookies.js:299-324): a synchronous handler.
GetRoot ==
  /\ snapshot' = Answer(cookies)
  /\ UNCHANGED <<browser, cookies, isCollecting, collectionInterval,
                 timerActive, initPc, cycles, customs, openPages, now,
                 lastTrigger, closeCalls, request, visit, refreshAnswer>>

(* ---------------------- the options of POST /create -------------------- *)
\* POST /create with options o builds validOptions (cookies.js:347-369) and
\* hands it to visitCustomUrl (cookies.js:372).
ValidateOptions(o) ==
  /\ request.pc = "none"
  /\ request' = [pc |-> "validated", options |-> o,
                 validOptions |-> ValidOptions(o),
                 applied |-> Applied(NoOptions, FALSE)]
  /\ UNCHANGED <<browser, cookies, isCollecting, collectionInterval,
                 timerActive, initPc, cycles, customs, openPages, now,
                 lastTrigger, closeCalls, snapshot, visit, refreshAnswer>>

\* visitCustomUrl works through cookies.js:179-202 with the options it was
\* given, on a page whose title does or does not announce a challenge.
ApplyOptions(challenge) ==
  /\ request.pc = "validated"
  /\ request' = [request EXCEPT
                   !.pc = "visited",
                   !.applied = Applied(request.validOptions, challenge)]
  /\ UNCHANGED <<browser, cookies, isCollecting, collectionInterval,
                 timerActive, initPc, cycles, customs, openPages, now,
                 lastTrigger, closeCalls, snapshot, visit, refreshAnswer>>

(* ------------------ visitCustomUrl, statement by statement ------------- *)
\* visitCustomUrl(url, o) is called (cookies.js:172-173) and suspends at
\* await this.browser.newPage().
VisitCall(o) ==
  /\ visit.pc \in {"none", "returned", "rejected"}
  /\ visit' = [pc |-> "newPage", stmt |-> 0, title |-> "",
               log |-> <<"newPage">>, result |-> "none", options |-> o]
  /\ UNCHANGED <<browser, cookies, isCollecting, collectionInterval,
                 timerActive, initPc, cycles, customs, openPages, now,
                 lastTrigger, closeCalls, snapshot, request,
                 refreshAnswer>>

\* The try block goes on to statement n, or to its return when n = 0
\* (cookies.js:212-218) and from there into finally (228-230).
GoesOn(v, n) ==
  IF n = 0
  THEN [v EXCEPT !.pc = "close", !.stmt = 0, !.result = "success",
                 !.log = Append(@, "close")]
  ELSE [v EXCEPT !.pc = "try", !.stmt = n, !.log = Append(@, Statements[n])]

\* browser.newPage() resolves: the try block is entered (cookies.js:173-175).
VisitNewPageResolve ==
  /\ visit.pc = "newPage"
  /\ visit' = GoesOn(visit, NextStatement(0, visit.options, visit.title))
  /\ UNCHANGED <<browser, cookies, isCollecting, collectionInterval,
                 timerActive, initPc, cycles, customs, openPages, now,
                 lastTrigger, closeCalls, snapshot, request,
                 refreshAnswer>>

\* browser.newPage() rejects outside the try block: the call rejects and
\* neither catch nor finally runs.
VisitNewPageReject ==
  /\ visit.pc = "newPage"
  /\ visit' = [visit EXCEPT !.pc = "rejected"]
  /\ UNCHANGED <<browser, cookies, isCollecting, collectionInterval,
                 timerActive, initPc, cycles, customs, openPages, now,
                 lastTrigger, closeCalls, snapshot, request,
                 refreshAnswer>>

\* page.title() answers (cookies.js:194) and the test of 195 is made.
TitleResolves(title) ==
  /\ visit.pc = "try"
  /\ Statements[visit.stmt] = "title"
  /\ visit' = GoesOn([visit EXCEPT !.title = title],
                     NextStatement(visit.stmt, visit.options, title))
  /\ UNCHANGED <<browser, cookies, isCollecting, collectionInterval,
                 timerActive, initPc, cycles, customs, openPages, now,
                 lastTrigger, closeCalls, snapshot, request,
                 refreshAnswer>>

\* Any other awaited statement of the try block resolves.
StatementResolves ==
  /\ visit.pc = "try"
  /\ Statements[visit.stmt] # "title"
  /\ visit' = GoesOn(visit,
                     NextStatement(visit.stmt, visit.options, visit.title))
  /\ UNCHANGED <<browser, cookies, isCollecting, collectionInterval,
                 timerActive, initPc, cycles, customs, openPages, now,
                 lastTrigger, closeCalls, snapshot, request,
                 refreshAnswer>>

\* An awaited page operation rejects: catch builds the failure record
\* (cookies.js:220-227) and finally is entered (228-230).
StatementRejects ==
  /\ visit.pc = "try"
  /\ ~IsDelay(Statements[visit.stmt])
  /\ visit' = [visit EXCEPT !.pc = "close", !.stmt = 0, !.result = "failure",
                            !.log = @ \o <<"catch", "close">>]
  /\ UNCHANGED <<browser, cookies, isCollecting, collectionInterval,
                 timerActive, initPc, cycles, customs, openPages, now,
                 lastTrigger, closeCalls, snapshot, request,
                 refreshAnswer>>

\* page.close() resolves and the call returns its record.
VisitCloseResolve ==
  /\ visit.pc = "close"
  /\ visit' = [visit EXCEPT !.pc = "returned"]
  /\ UNCHANGED <<browser, cookies, isCollecting, collectionInterval,
                 timerActive, initPc, cycles, customs, openPages, now,
                 lastTrigger, closeCalls, snapshot, request,
                 refreshAnswer>>

\* page.close() rejects: the rejection replaces the record.
VisitCloseReject ==
  /\ visit.pc = "close"
  /\ visit' = [visit EXCEPT !.pc = "rejected", !.result = "none"]
  /\ UNCHANGED <<browser, cookies, isCollecting, collectionInterval,
                 timerActive, initPc, cycles, customs, openPages, now,
                 lastTrigger, closeCalls, snapshot, request,
                 refreshAnswer>>

(* --------------------------- specification ----------------------------- *)
Next ==
  \/ LaunchResolve
  \/ LaunchReject
  \/ TimerTick
  \/ Refresh
  \/ DestroyOnce
  \/ \E c \in CycleIds, i \in JobIdx : NewPageResolve(c, i)
  \/ \E c \in CycleIds, i \in JobIdx : NewPageReject(c, i)
  \/ \E c \in CycleIds, i \in JobIdx, jar \in Jars : VisitReturn(c, i, jar)
  \/ \E c \in CycleIds, i \in JobIdx : VisitCaught(c, i)
  \/ \E c \in CycleIds, i \in JobIdx : CloseReject(c, i)
  \/ \E u \in HttpsUrls : Create(u)
  \/ \E k \in CustomIds : CustomNewPageResolve(k)
  \/ \E k \in CustomIds : CustomNewPageReject(k)
  \/ \E k \in CustomIds, jar \in CustomJars : CustomReturn(k, jar)
  \/ \E k \in CustomIds : CustomCaught(k)
  \/ \E k \in CustomIds : CustomCloseReject(k)

Spec == Init /\ [][Next]_vars

\* The service with every call of destroy().
NextShutdown == Next \/ Destroy

SpecShutdown == Init /\ [][NextShutdown]_vars

\* The service with every url of a POST /create body.
NextCreate == Next \/ \E u \in Urls : Create(u)

SpecCreate == Init /\ [][NextCreate]_vars

\* The guarded cycles with the readers of the store beside them.
NextRead ==
  \/ LaunchResolve
  \/ TimerTick
  \/ Refresh
  \/ \E c \in CycleIds, i \in JobIdx : NewPageResolve(c, i)
  \/ \E c \in CycleIds, i \in JobIdx : NewPageReject(c, i)
  \/ \E c \in CycleIds, i \in JobIdx, jar \in Jars : VisitReturn(c, i, jar)
  \/ \E c \in CycleIds, i \in JobIdx : VisitCaught(c, i)
  \/ GetRoot

SpecRead == Init /\ [][NextRead]_vars

\* A step of a built-in visit job: an awaited browser operation settles.
JobStep ==
  \E c \in CycleIds, i \in JobIdx :
    \/ NewPageResolve(c, i)
    \/ NewPageReject(c, i)
    \/ \E jar \in Jars : VisitReturn(c, i, jar)
    \/ VisitCaught(c, i)
    \/ CloseReject(c, i)

\* The guarded cycles and destroy(), every awaited browser operation of a
\* built-in job settling in the end.
NextLive ==
  \/ LaunchResolve
  \/ LaunchReject
  \/ TimerTick
  \/ Refresh
  \/ DestroyOnce
  \/ JobStep

SpecLive == Init /\ [][NextLive]_vars /\ WF_vars(JobStep)

\* The options of one POST /create request, from the body to the visit.
NextOptions ==
  \/ \E o \in Options : ValidateOptions(o)
  \/ \E challenge \in BOOLEAN : ApplyOptions(challenge)

SpecOptions == Init /\ [][NextOptions]_vars

\* A step of the call of visitCustomUrl: an awaited operation settles.
VisitStep ==
  \/ VisitNewPageResolve
  \/ VisitNewPageReject
  \/ \E title \in Titles : TitleResolves(title)
  \/ StatementResolves
  \/ StatementRejects
  \/ VisitCloseResolve
  \/ VisitCloseReject

\* Calls of visitCustomUrl, one at a time, every awaited operation of a
\* call settling in the end (the delays are timers, page.goto has its
\* timeout).
NextVisit ==
  \/ \E o \in VisitOptions : VisitCall(o)
  \/ VisitStep

SpecVisit == Init /\ [][NextVisit]_vars /\ WF_vars(VisitStep)

\* POST /create requests beside each other and beside the guarded cycles.
NextInFlight ==
  \/ LaunchResolve
  \/ Refresh
  \/ \E c \in CycleIds, i \in JobIdx : NewPageResolve(c, i)
  \/ \E c \in CycleIds, i \in JobIdx : VisitCaught(c, i)
  \/ \E u \in Urls : Create(u)
  \/ \E k \in DOMAIN customs : CustomNewPageResolve(k)
  \/ \E k \in DOMAIN customs, jar \in CustomJars : CustomReturn(k, jar)
  \/ \E k \in DOMAIN customs : CustomCaught(k)

SpecInFlight == InitInFlight /\ [][NextInFlight]_vars

\* The guarded cycles with the answers of POST /refresh.
NextRefresh ==
  \/ LaunchResolve
  \/ LaunchReject
  \/ TimerTick
  \/ PostRefresh
  \/ DestroyOnce
  \/ \E c \in CycleIds, i \in JobIdx : NewPageResolve(c, i)
  \/ \E c \in CycleIds, i \in JobIdx : NewPageReject(c, i)
  \/ \E c \in CycleIds, i \in JobIdx, jar \in Jars : VisitReturn(c, i, jar)
  \/ \E c \in CycleIds, i \in JobIdx : VisitCaught(c, i)
  \/ \E c \in CycleIds, i \in JobIdx : CloseReject(c, i)

SpecRefresh == Init /\ [][NextRefresh]_vars

(* ------------------------- vocabulary of the claims -------------------- *)
RunningCycles == {c \in CycleIds : cycles[c].st = "running"}

\* Cycle c passes the guard in this step.
Starts(c) ==
  /\ cycles[c].st # "running"
  /\ cycles'[c].st \in {"running", "done"}
  /\ cycles'[c] # cycles[c]

\* Cycle c runs its fan-in (cookies.js:249-268) in this step.
Completes(c) ==
  /\ cycles'[c].st = "done"
  /\ cycles[c].st = "running" \/ cycles'[c] # cycles[c]

\* The job returned null or rejected.
JobFailed(job) ==
  job.pc = "rejected" \/ (job.pc = "fulfilled" /\ job.val = null)

\* The job's cookie extraction returned: it fulfilled with a cookie string.
JobSucceeded(job) == job.pc = "fulfilled" /\ job.val # null

\* The jobs that hold page p: acquired and not yet settled.
BuiltinHolders(p) ==
  {<<c, i>> \in CycleIds \X JobIdx :
     cycles[c].jobs[i].pc = "visit" /\ cycles[c].jobs[i].page = p}

CustomHolders(p) ==
  {k \in CustomIds : customs[k].pc = "visit" /\ customs[k].page = p}

HeldPages ==
  {cycles[c].jobs[i].page : <<c, i>> \in
     {x \in CycleIds \X JobIdx : cycles[x[1]].jobs[x[2]].pc = "visit"}}
  \cup {customs[k].page : k \in {x \in CustomIds : customs[x].pc = "visit"}}

\* The call of visitCustomUrl is suspended at statement stmt of its try
\* block.
Awaiting(stmt) == visit.pc = "try" /\ Statements[visit.stmt] = stmt

\* The visit jobs that have acquired a page and have not yet finished.
PageHoldingJobs ==
  Cardinality({x \in CycleIds \X JobIdx : cycles[x[1]].jobs[x[2]].pc = "visit"})
  + Cardinality({k \in CustomIds : customs[k].pc = "visit"})

\* No guarded cycle is running and no custom job is in flight.
Quiet ==
  /\ RunningCycles = {}
  /\ \A k \in CustomIds : customs[k].pc \notin {"newPage", "visit"}

(* --------------------------------- C1 ---------------------------------- *)
\* C1: at most one execution of collectAllCookies is between setting
\* isCollecting = true and resetting it, and the flag is set whenever one is.
C1_SingleFlight ==
  /\ Cardinality(RunningCycles) <= 1
  /\ RunningCycles # {} => isCollecting

\* A cycle is running and a further trigger has arrived during it.
C1_Witness ==
  /\ Cardinality(RunningCycles) = 1
  /\ lastTrigger.kind \in {"periodic", "manual"}

C3_NoCustomJobDuringCycle ==
  ~(isCollecting /\ \E k \in CustomIds : customs[k].pc = "visit")

\* C3 as amended: POST /create starts a custom job only when no guarded
\* cycle is Running at the moment of its check, and answers 429 without
\* calling visitCustomUrl when one is; a guarded cycle may start while a
\* custom job is in flight.
C3_CustomJobStartsOnlyWhenIdle ==
  [][\A k \in CustomIds :
       (customs[k].pc \in {"unused", "done"} /\ customs'[k] # customs[k]) =>
         /\ isCollecting => customs'[k].status = 429 /\ customs'[k].pc = "done"
                            /\ customs'[k].ret.kind = "none"
         /\ ~isCollecting => customs'[k].status # 429]_vars

\* A request was turned away with 429 by the cycle still running.
C3_Witness ==
  /\ isCollecting
  /\ \E k \in CustomIds : customs[k].pc = "done" /\ customs[k].status = 429

(* --------------------------------- C4 ---------------------------------- *)
\* C4: a site's stored record changes only in the fan-in of a cycle, and the
\* fan-in of a cycle in which the site's job returned null or rejected
\* leaves the site's record as it was.
C4_FailedSiteKeepsRecord ==
  [][/\ \A c \in CycleIds : Completes(c) =>
          \A i \in JobIdx :
            JobFailed(cycles'[c].jobs[i]) =>
              cookies'[cycles'[c].jobs[i].site] = cookies[cycles'[c].jobs[i].site]
     /\ (\E x \in Sites : cookies'[x] # cookies[x]) =>
          \E c \in CycleIds : Completes(c)]_vars

\* A cycle has completed in which a site failed whose record was set before.
C4_Witness ==
  \E c \in CycleIds, i \in JobIdx :
    /\ cycles[c].st = "done"
    /\ JobFailed(cycles[c].jobs[i])
    /\ cookies[cycles[c].jobs[i].site] = "a=1; b=2"

(* --------------------------------- C5 ---------------------------------- *)
\* C5: after a cycle, the record of every site whose job fulfilled with a
\* cookie string (of any number of cookies, zero included) is that string.
C5_SuccessfulSiteInstalled ==
  \A c \in CycleIds, i \in JobIdx :
    (cycles[c].st = "done" /\ JobSucceeded(cycles[c].jobs[i])) =>
      cookies[cycles[c].jobs[i].site] = cycles[c].jobs[i].val

(* --------------------------------- C6 ---------------------------------- *)
\* C6: the fan-in of every cycle stamps lastUpdated with the time of that
\* moment, when all its jobs have settled and however many failed, and no
\* other step changes lastUpdated.
C6_StampedOncePerCycle ==
  [][/\ \A c \in CycleIds : Completes(c) =>
          /\ \A i \in JobIdx : Settled(cycles'[c].jobs[i])
          /\ cookies'.lastUpdated = ToISOString(now')
     /\ cookies'.lastUpdated # cookies.lastUpdated =>
          \E c \in CycleIds : Completes(c)
     /\ now' # now => \E c \in CycleIds : Completes(c)]_vars

\* A cycle in which every job failed has completed and stamped a later time.
C6_Witness ==
  \E c \in CycleIds :
    /\ cycles[c].st = "done"
    /\ \A i \in JobIdx : JobFailed(cycles[c].jobs[i])
    /\ cookies.lastUpdated = ToISOString(1)

(* --------------------------------- C7 ---------------------------------- *)
\* C7: a cycle launches exactly one job per built-in site, its fan-in runs
\* only when all of them have settled, and it installs every job's truthy
\* result whatever became of the other jobs.
C7_OneJobPerSiteNoneCancelled ==
  [][\A c \in CycleIds :
       /\ Starts(c) =>
            \A x \in Sites :
              Cardinality({i \in JobIdx : cycles'[c].jobs[i].site = x}) = 1
       /\ Completes(c) =>
            \A i \in JobIdx :
              /\ Settled(cycles'[c].jobs[i])
              /\ Installs(Results(cycles'[c].jobs)[i]) =>
                   cookies'[cycles'[c].jobs[i].site] = cycles'[c].jobs[i].val]_vars

\* A cycle has completed in which one job rejected and another's result
\* was installed.
C7_Witness ==
  \E c \in CycleIds, i, j \in JobIdx :
    /\ cycles[c].st = "done"
    /\ cycles[c].jobs[i].pc = "rejected"
    /\ JobSucceeded(cycles[c].jobs[j]) /\ Truthy(cycles[c].jobs[j].val)
    /\ cookies[cycles[c].jobs[j].site] = cycles[c].jobs[j].val

(* --------------------------------- C8 ---------------------------------- *)
\* C8: every open page context is held by exactly one job that has not yet
\* settled (a job that ended, on whatever path, left none open), and while
\* the browser lives the page of a job is closed by nobody but that job.
C8_PageOwnedAndClosedByItsJob ==
  /\ \A p \in openPages :
       Cardinality(BuiltinHolders(p)) + Cardinality(CustomHolders(p)) = 1
  /\ browser = "live" => HeldPages \subseteq openPages
  /\ 0 \notin HeldPages

\* A job ended on the error path while another job still holds its page.
C8_Witness ==
  /\ \E c \in CycleIds, i \in JobIdx :
       cycles[c].jobs[i].pc = "fulfilled" /\ cycles[c].jobs[i].val = null
  /\ \E k \in CustomIds : customs[k].pc = "done" /\ customs[k].status = 400
  /\ Cardinality(openPages) = 1

(* --------------------------------- C9 ---------------------------------- *)
\* C9: once destroy has closed the browser, no periodic cycle starts.
C9_NoPeriodicCycleAfterDestroy ==
  [][browser = "closed" =>
       \A c \in CycleIds : ~(Starts(c) /\ cycles'[c].trigger = "periodic")]_vars

(* --------------------------------- C10 --------------------------------- *)
\* C10: visitCustomUrl never rejects; every failure inside it is returned
\* as a record with success = false.
C10_VisitCustomUrlNeverRejects ==
  \A k \in CustomIds : customs[k].ret.kind # "rejected"

(* --------------------------------- C11 --------------------------------- *)
\* C11: every step of an ad-hoc custom job (the request, its page
\* acquisition, its return or failure, the answer of the route) leaves the
\* three site records, lastUpdated and the isCollecting flag unchanged.
C11_CustomJobLeavesStoreAndFlag ==
  [][customs' # customs =>
       cookies' = cookies /\ isCollecting' = isCollecting]_vars

\* A custom job has returned cookies while the store holds no record.
C11_Witness ==
  /\ \E k \in CustomIds :
       /\ customs[k].pc = "done" /\ customs[k].status = 200
       /\ customs[k].ret.cookies = "a=1; b=2"
  /\ \A x \in Sites : cookies[x] = null
  /\ ~isCollecting

(* --------------------------------- C12 --------------------------------- *)
\* C12: once the browser launch has failed, no timer is installed, no
\* guarded cycle starts and no request reaches visitCustomUrl.
C12_LaunchFailureStopsService ==
  [][initPc = "failed" =>
       /\ collectionInterval' = null
       /\ \A c \in CycleIds : ~Starts(c)
       /\ \A k \in CustomIds :
            customs'[k] # customs[k] => customs'[k].ret.kind = "none"]_vars

(* --------------------------------- C13 --------------------------------- *)
\* C13: a POST /create request whose url is missing, does not parse or is
\* not https is answered 400 with the format error of its defect, and
\* visitCustomUrl (hence browser.newPage()) is never called for it.
C13_BadUrlRejectedBeforeNewPage ==
  \A k \in CustomIds :
    (customs[k].pc # "unused" /\ customs[k].url # "https://example.com") =>
      /\ customs[k].pc = "done"
      /\ customs[k].status = 400
      /\ customs[k].error =
           CASE customs[k].url = "" -> "URL is required"
             [] customs[k].url = "example.com" -> "Invalid URL format"
             [] OTHER -> "Only HTTPS URLs are allowed"
      /\ customs[k].ret.kind = "none"
      /\ customs[k].page = 0

\* A plain-http request was turned away while the service was idle with a
\* live browser.
C13_Witness ==
  /\ browser = "live"
  /\ ~isCollecting
  /\ \E k \in CustomIds :
       /\ customs[k].url = "http://example.com"
       /\ customs[k].pc = "done" /\ customs[k].status = 400

(* --------------------------------- C14 --------------------------------- *)
\* C14: once destroy has closed the browser, a further call of destroy
\* performs no further close operation on it.
C14_SecondDestroyClosesNothing ==
  [][closeCalls # "none" => closeCalls' = closeCalls]_vars

(* --------------------------------- C15 --------------------------------- *)
\* C15: the visit uses, field by field, the supplied value of every option
\* that is inside its bound (timeout in (0, 120000], waitUntil one of the
\* four modes, the waits in [0, 30000], [0, 60000] and [0, 30000], headers
\* a flat string map, viewport a width/height object) and the built-in
\* default of every option that is not, whatever the other fields hold.
C15_PerFieldValidation ==
  request.pc = "visited" =>
    LET o == request.options
        a == request.applied
    IN /\ a.timeout = IF Within(o.timeout, 1, TimeoutLimit)
                      THEN o.timeout.n ELSE DefaultTimeout
       /\ a.waitUntil = IF o.waitUntil.type = "string"
                           /\ o.waitUntil.s \in WaitUntilModes
                        THEN o.waitUntil.s ELSE DefaultWaitUntil
       /\ a.initialWait = IF Within(o.initialWait, 0, InitialWaitLimit)
                          THEN o.initialWait.n ELSE DefaultInitialWait
       /\ a.challenge =>
            a.cloudflareWait = IF Within(o.cloudflareWait, 0, CloudflareWaitLimit)
                               THEN o.cloudflareWait.n
                               ELSE DefaultCloudflareWait
       /\ a.additionalWait = IF Within(o.additionalWait, 0, AdditionalWaitLimit)
                             THEN o.additionalWait.n ELSE 0
       /\ a.headers = IF o.headers = FlatHeaders THEN o.headers ELSE Undefined
       /\ a.viewport = IF o.viewport = SizeViewport
                       THEN o.viewport ELSE Undefined

(* --------------------------------- C16 --------------------------------- *)
\* C16: a wait option supplied inside its closed bound, 0 included, is the
\* delay the visit applies: initialWait in [0, 30000], cloudflareWait in
\* [0, 60000] on a challenge page, additionalWait in [0, 30000].
C16_InBoundWaitApplied ==
  request.pc = "visited" =>
    LET o == request.options
        a == request.applied
    IN /\ Within(o.initialWait, 0, InitialWaitLimit) =>
            a.initialWait = o.initialWait.n
       /\ (a.challenge /\ Within(o.cloudflareWait, 0, CloudflareWaitLimit)) =>
            a.cloudflareWait = o.cloudflareWait.n
       /\ Within(o.additionalWait, 0, AdditionalWaitLimit) =>
            a.additionalWait = o.additionalWait.n

(* --------------------------------- C17 --------------------------------- *)
\* C17: a headers value that is not a flat map of strings and a viewport
\* value that is not a width/height object are dropped by the validation
\* and never set on the page.
C17_MalformedHeadersAndViewportDropped ==
  request.pc \in {"validated", "visited"} =>
    /\ request.options.headers # FlatHeaders =>
         /\ request.validOptions.headers = Undefined
         /\ request.applied.headers = Undefined
    /\ request.options.viewport # SizeViewport =>
         /\ request.validOptions.viewport = Undefined
         /\ request.applied.viewport = Undefined

C19_RunningCycleEnds == isCollecting ~> ~isCollecting

\* The startup cycle was in flight when destroy closed the browser, every
\* job of it rejected, and it has ended (init went on to install the timer).
C19_Witness ==
  /\ browser = "closed"
  /\ timerActive
  /\ ~isCollecting
  /\ \E c \in CycleIds :
       /\ cycles[c].st = "done" /\ cycles[c].trigger = "startup"
       /\ \A i \in JobIdx : cycles[c].jobs[i].pc = "rejected"

(* --------------------------------- C20 --------------------------------- *)
\* C20: the timer is installed only in the step in which the startup cycle
\* completes (all its jobs settled, lastUpdated stamped), it never becomes
\* active a second time, and a periodic tick arrives only after that step.
C20_TimerAfterStartupCycleOnce ==
  [][/\ collectionInterval' # collectionInterval =>
          /\ collectionInterval = null
          /\ \E c \in CycleIds :
               /\ Completes(c) /\ cycles'[c].trigger = "startup"
               /\ \A i \in JobIdx : Settled(cycles'[c].jobs[i])
               /\ cookies'.lastUpdated = ToISOString(now')
     /\ (timerActive' /\ ~timerActive) => collectionInterval = null
     /\ (\/ \E c \in CycleIds : Starts(c) /\ cycles'[c].trigger = "periodic"
         \/ lastTrigger' # lastTrigger /\ lastTrigger'.kind = "periodic") =>
          /\ collectionInterval # null
          /\ cookies.lastUpdated # null
          /\ \A c \in CycleIds :
               ~(cycles[c].st = "running" /\ cycles[c].trigger = "startup")
    ]_vars

\* A periodic cycle is running; the startup cycle stamped the store before.
C20_Witness ==
  /\ timerActive
  /\ cookies.lastUpdated # null
  /\ \E c \in CycleIds :
       cycles[c].st = "running" /\ cycles[c].trigger = "periodic"

(* --------------------------------- C21 --------------------------------- *)
\* C21: a site's record, once non-null, is non-null in every later state,
\* and a step that changes the record of a site is the fan-in of a cycle
\* and sets it to the value the site's own job of that cycle fulfilled with.
C21_RecordKeptAndOwnJobOnly ==
  [][\A x \in Sites :
       /\ cookies[x] # null => cookies'[x] # null
       /\ cookies'[x] # cookies[x] =>
            \E c \in CycleIds, i \in JobIdx :
              /\ Completes(c)
              /\ BuiltinVisits[i] = x
              /\ cycles'[c].jobs[i].site = x
              /\ cycles'[c].jobs[i].pc = "fulfilled"
              /\ cookies'[x] = cycles'[c].jobs[i].val]_vars

\* A cycle has completed in which only the job of pahe.win harvested
\* cookies: its record is set, the two others are as they were.
C21_Witness ==
  /\ cookies.paheWin = "a=1; b=2"
  /\ cookies.animepahe = null
  /\ cookies.kiwik = null
  /\ \E c \in CycleIds :
       /\ cycles[c].st = "done"
       /\ JobSucceeded(cycles[c].jobs[2])
       /\ JobFailed(cycles[c].jobs[1])
       /\ JobFailed(cycles[c].jobs[3])

(* --------------------------------- C22 --------------------------------- *)
\* C22: a visit whose title has been read goes on to the challenge wait
\* exactly when the title contains 'Just a moment' or 'Cloudflare'; a call
\* makes the challenge wait at most once and reads the title at most once;
\* and a call that is in the challenge wait leaves it.
C22_ChallengeWaitOnceByTitle ==
  /\ [](/\ \A i \in 1..(Len(visit.log) - 1) :
             (visit.log[i] = "title" /\ visit.log[i + 1] # "catch") =>
               (visit.log[i + 1] = "cloudflareWait" <=>
                  visit.title \in {"Just a moment...",
                                   "Attention Required! | Cloudflare"})
        /\ Cardinality({i \in 1..Len(visit.log) :
                          visit.log[i] = "cloudflareWait"}) <= 1
        /\ Cardinality({i \in 1..Len(visit.log) :
                          visit.log[i] = "title"}) <= 1)
  /\ (Awaiting("cloudflareWait") ~> ~Awaiting("cloudflareWait"))

\* A visit met a challenge title, waited once and has returned its cookies.
C22_Witness ==
  /\ visit.pc = "returned"
  /\ visit.result = "success"
  /\ visit.title = "Attention Required! | Cloudflare"
  /\ \E i \in 1..Len(visit.log) : visit.log[i] = "cloudflareWait"

(* --------------------------------- C23 --------------------------------- *)
\* C23 as stated: as soon as a job of a running cycle has fulfilled with a
\* cookie string, the store holds that string as the site's record.
C23_SettledSiteMergedAtOnce ==
  \A c \in CycleIds, i \in JobIdx :
    (cycles[c].st = "running" /\ JobSucceeded(cycles[c].jobs[i])
       /\ Truthy(cycles[c].jobs[i].val)) =>
      cookies[cycles[c].jobs[i].site] = cycles[c].jobs[i].val

\* C23 as amended: no step that leaves a cycle running changes the store;
\* the store changes only in the step in which the last job of a cycle
\* settles, by the merges of all sites and the stamp together; and an
\* answer of GET / given while a cycle is running is the store as it was
\* before that cycle.
C23_MergedOnlyWhenAllSettled ==
  [][/\ (\E c \in CycleIds : cycles'[c].st = "running") => cookies' = cookies
     /\ cookies' # cookies =>
          \E c \in CycleIds :
            /\ Completes(c)
            /\ \A i \in JobIdx : Settled(cycles'[c].jobs[i])
            /\ cookies' = [Merge(cookies, Results(cycles'[c].jobs))
                             EXCEPT !.lastUpdated = ToISOString(now')]
     /\ (snapshot' # snapshot /\ isCollecting) =>
          /\ snapshot' = Answer(cookies)
          /\ cookies' = cookies]_vars

\* A manual cycle is running, its first job has fulfilled with cookies, its
\* second has not settled, and the store and the last answer of GET / hold
\* no record of the first site.
C23_Witness ==
  /\ \E c \in CycleIds :
       /\ cycles[c].st = "running" /\ cycles[c].trigger = "manual"
       /\ JobSucceeded(cycles[c].jobs[1]) /\ Truthy(cycles[c].jobs[1].val)
       /\ ~Settled(cycles[c].jobs[2])
  /\ cookies.animepahe = null
  /\ snapshot.status = 200
  /\ snapshot.animepahe = null

(* --------------------------------- C24 --------------------------------- *)
\* C24: the calls a custom visit makes follow the order: acquire page, set
\* user agent, set extra headers, set viewport, navigate, initial wait, read
\* title, challenge wait, additional wait, evaluate script, extract
\* cookies, release page; each optional one is made only under its
\* condition and, in a visit that reaches it, always under it; cookies are
\* not extracted after a failed step; and the page is released on the
\* success and on the failure path alike.
C24_Order ==
  <<"newPage", "setUserAgent", "setExtraHTTPHeaders", "setViewport", "goto",
    "initialWait", "title", "cloudflareWait", "additionalWait", "evaluate",
    "cookies", "catch", "close">>

C24_Rank(call) == CHOOSE r \in 1..Len(C24_Order) : C24_Order[r] = call

C24_Made(call) == \E i \in 1..Len(visit.log) : visit.log[i] = call

C24_StepsInOrder ==
  visit.pc # "none" =>
    /\ \A i \in 1..(Len(visit.log) - 1) :
         C24_Rank(visit.log[i]) < C24_Rank(visit.log[i + 1])
    /\ visit.log[1] = "newPage"
    /\ C24_Made("setExtraHTTPHeaders") => visit.options.headers # Undefined
    /\ C24_Made("setViewport") => visit.options.viewport # Undefined
    /\ C24_Made("cloudflareWait") =>
         visit.title \in {"Just a moment...", "Attention Required! | Cloudflare"}
    /\ C24_Made("additionalWait") => visit.options.additionalWait # Undefined
    /\ C24_Made("evaluate") => visit.options.executeScript # Undefined
    /\ C24_Made("cookies") =>
         /\ C24_Made("setUserAgent") /\ C24_Made("goto")
         /\ C24_Made("initialWait") /\ C24_Made("title")
         /\ C24_Made("setExtraHTTPHeaders") <=> visit.options.headers # Undefined
         /\ C24_Made("setViewport") <=> visit.options.viewport # Undefined
         /\ C24_Made("additionalWait") <=>
              visit.options.additionalWait # Undefined
         /\ C24_Made("evaluate") <=> visit.options.executeScript # Undefined
    /\ C24_Made("catch") => visit.result # "success"
    /\ visit.result = "success" => C24_Made("cookies") /\ ~C24_Made("catch")
    /\ visit.pc = "returned" => C24_Made("close")
    /\ visit.pc = "try" => visit.log[Len(visit.log)] = Statements[visit.stmt]

\* A visit with every option set met a challenge, made all twelve calls and
\* returned its cookies.
C24_Witness ==
  /\ visit.pc = "returned"
  /\ visit.result = "success"
  /\ visit.log = <<"newPage", "setUserAgent", "setExtraHTTPHeaders",
                   "setViewport", "goto", "initialWait", "title",
                   "cloudflareWait", "additionalWait", "evaluate", "cookies",
                   "close">>

(* --------------------------------- C25 --------------------------------- *)
\* C25: a POST /create request with a well-formed https url is answered
\* BusyError (429) exactly when a guarded cycle is running at the moment of
\* its check, no request is answered BusyError otherwise, and a request
\* that arrives while other custom jobs are in flight is admitted like any
\* other.
C25_BusyOnlyByGuardedCycle ==
  [][\A k \in DOMAIN customs :
       (customs[k].pc \in {"unused", "done"} /\ customs'[k] # customs[k]) =>
         /\ customs'[k].status = 429 => RunningCycles # {}
         /\ customs'[k].url = "https://example.com" =>
              (customs'[k].status = 429 <=> RunningCycles # {})
         /\ (customs'[k].url = "https://example.com" /\ RunningCycles = {}
               /\ browser = "live") =>
              customs'[k].pc = "newPage"]_vars

\* Two custom jobs hold a page each at the same time.
C25_Witness ==
  /\ Cardinality({k \in DOMAIN customs : customs[k].pc = "visit"}) >= 2
  /\ Cardinality(openPages) >= 2
  /\ RunningCycles = {}

(* --------------------------------- C26 --------------------------------- *)
\* C26: when POST /refresh answers Accepted, the request has started a
\* manual cycle and that cycle is running (isCollecting is set) at the
\* moment the answer is given; when it answers BusyError, a cycle was
\* running already and the request started no cycle and no job and changed
\* nothing of the service.
C26_AcceptedMeansRunning ==
  [][PostRefresh =>
       /\ refreshAnswer'.status \in {200, 429}
       /\ refreshAnswer'.status = 200 =>
            /\ refreshAnswer'.isCollecting
            /\ refreshAnswer'.cycle \in CycleIds
            /\ cycles[refreshAnswer'.cycle].st # "running"
            /\ cycles'[refreshAnswer'.cycle].st \in {"running", "done"}
            /\ cycles'[refreshAnswer'.cycle].trigger = "manual"
            /\ ~isCollecting
       /\ refreshAnswer'.status = 429 =>
            /\ isCollecting
            /\ UNCHANGED <<browser, cookies, isCollecting, collectionInterval,
                           timerActive, initPc, cycles, customs, openPages,
                           now>>]_vars

\* A refresh was accepted and the cycle it started is still running, none
\* of its jobs settled.
C26_Witness ==
  /\ refreshAnswer.status = 200
  /\ refreshAnswer.isCollecting
  /\ isCollecting
  /\ \E c \in CycleIds :
       /\ c = refreshAnswer.cycle
       /\ cycles[c].st = "running" /\ cycles[c].trigger = "manual"
       /\ \A i \in JobIdx : ~Settled(cycles[c].jobs[i])

(* --------------------------------- C27 --------------------------------- *)
\* C27: every call of browser.newPage(), by a job of a guarded cycle or by
\* a custom job, is made while the browser is live: after the launch has
\* resolved and before destroy has closed it; and pages are open only in a
\* live browser.
C27_NewPageOnlyOnLiveBrowser ==
  [][/\ (\/ \E c \in CycleIds : Starts(c)
         \/ \E k \in CustomIds :
              /\ customs'[k] # customs[k]
              /\ customs[k].pc \in {"unused", "done"}
              /\ \/ customs'[k].pc = "newPage"
                 \/ customs'[k].ret.kind = "rejected") => browser' = "live"
     /\ openPages' # {} => browser' = "live"]_vars

(* --------------------------------- C28 --------------------------------- *)
\* C28: lastUpdated is null at first, becomes non-null in the step in which
\* a cycle completes, whatever that cycle harvested, and is never null
\* again; GET / answers 503 exactly while lastUpdated is null, that is while
\* no cycle has completed, and 200 from then on.
C28_NotYetCollectedUntilFirstCycle ==
  /\ cookies.lastUpdated = null
  /\ [][/\ cookies.lastUpdated # null => cookies'.lastUpdated # null
        /\ (\E c \in CycleIds : Completes(c)) => cookies'.lastUpdated # null
        /\ cookies'.lastUpdated # cookies.lastUpdated =>
             \E c \in CycleIds : Completes(c)
        /\ GetRoot =>
             /\ snapshot'.status \in {200, 503}
             /\ snapshot'.status = 503 <=> cookies.lastUpdated = null]_vars

\* The only cycle so far harvested nothing, and GET / has answered 200 with
\* three null records.
C28_Witness ==
  /\ snapshot.status = 200
  /\ snapshot.animepahe = null /\ snapshot.pahewin = null
  /\ snapshot.kiwik = null
  /\ snapshot.lastUpdated # null
  /\ \A x \in Sites : cookies[x] = null
  /\ \E c \in CycleIds :
       /\ cycles[c].st = "done" /\ cycles[c].trigger = "startup"
       /\ \A i \in JobIdx : JobFailed(cycles[c].jobs[i])

(* --------------------------------- C29 --------------------------------- *)
\* C29: whatever the body of a POST /create request holds, the options the
\* route hands to visitCustomUrl carry no executeScript, so the visit of
\* the request does not reach the page.evaluate statement and evaluates no
\* script.
C29_ScriptNeverReachesBrowser ==
  request.pc \in {"validated", "visited"} =>
    /\ request.validOptions.executeScript = Undefined
    /\ \A title \in Titles :
         ~Runs("evaluate", request.validOptions, title)
    /\ request.pc = "visited" => request.applied.executeScript = Undefined

\* A request whose body carries a script has been validated and visited.
C29_Witness ==
  /\ request.pc = "visited"
  /\ request.options.executeScript = Script
  /\ request.applied.executeScript = Undefined

(* --------------------------------- C30 --------------------------------- *)
\* C30 as stated: in every state the number of open page contexts is the
\* number of visit jobs that have acquired a page and not yet finished, and
\* it is zero whenever no cycle is running and no custom job is in flight.
C30_OpenPagesEqualHoldingJobs ==
  /\ Cardinality(openPages) = PageHoldingJobs
  /\ Quiet => openPages = {}

\* C30 as amended: while the browser is live the number of open page
\* contexts is the number of visit jobs that have acquired a page and not
\* yet finished; once destroy has closed the browser no page context is
\* open, whatever jobs still hold one; and no page context is open whenever
\* no cycle is running and no custom job is in flight.
C30_OpenPagesWhileBrowserLives ==
  /\ browser = "live" => Cardinality(openPages) = PageHoldingJobs
  /\ browser # "live" => openPages = {}
  /\ Quiet => openPages = {}

\* destroy has closed the browser under two jobs that had acquired a page
\* and have not finished yet.
C30_Witness ==
  /\ browser = "closed"
  /\ openPages = {}
  /\ PageHoldingJobs >= 2

(* --------------------------------- C31 --------------------------------- *)
\* C31: POST /create answers by the first of its checks that fails, in the
\* order missing url, unparsable url, scheme other than https, busy: a
\* request without a well-formed https url is answered 400 with the error
\* of its defect whether or not a cycle is running, and 429 is answered
\* only to a request with a well-formed https url.
C31_UrlChecksBeforeBusy ==
  [][\A k \in DOMAIN customs :
       (customs[k].pc \in {"unused", "done"} /\ customs'[k] # customs[k]) =>
         LET r == customs'[k]
         IN /\ r.url = "" =>
                 r.status = 400 /\ r.error = "URL is required"
            /\ r.url = "example.com" =>
                 r.status = 400 /\ r.error = "Invalid URL format"
            /\ r.url = "http://example.com" =>
                 r.status = 400 /\ r.error = "Only HTTPS URLs are allowed"
            /\ r.url = "https://example.com" =>
                 /\ r.status # 400
                 /\ r.status = 429 <=> isCollecting
            /\ r.status = 429 => r.url = "https://example.com"
            /\ r.status \in {400, 429} =>
                 r.pc = "done" /\ r.ret.kind = "none" /\ r.page = 0]_vars

\* A plain-http request has its format error while a cycle is running with
\* a job on its page.
C31_Witness ==
  /\ isCollecting
  /\ \E c \in CycleIds, i \in JobIdx :
       cycles[c].st = "running" /\ cycles[c].jobs[i].pc = "visit"
  /\ \E k \in DOMAIN customs :
       /\ customs[k].url = "http://example.com"
       /\ customs[k].pc = "done" /\ customs[k].status = 400
       /\ customs[k].error = "Only HTTPS URLs are allowed"

====
